---- MODULE Spec2Model ----
(***************************************************************************)
(* build_tmdb_cache.py: the checkpointed, rate-limited ingestion of TMDB   *)
(* movie records.  One process run is main(); the state file and the cache *)
(* directory survive between runs, everything else is per process.         *)
(*                                                                         *)
(* Time is counted in ticks, TicksPerSec ticks to the second, and each     *)
(* process counts from its own start (only differences of time.time() are  *)
(* ever used by the code).                                                 *)
(***************************************************************************)
EXTENDS Integers, Sequences, FiniteSets, TLC

\* ---------------------------------------------------------------- bounds
TicksPerSec == 2      \* resolution of the clock
RATE_LIMIT == 3       \* line 12 sets 50; scaled down, the limiter's logic is the same
MaxTokens == 2        \* .txt files the lbc repository ever holds
MaxRuns == 2          \* process runs in one behaviour
Max429 == 4           \* 429 answers the upstream gives in one behaviour
MaxCalls == 8         \* calls of rate_limit_wait in the limiter-only specification
MaxWrites == 2        \* writes of one cache file in the cache-only specification
MaxId == MaxTokens    \* TMDB IDs are 1..MaxId

\* ------------------------------------------------------ program constants
MAX_RUNTIME_SECS == 10 * 60
RATE_LIMIT_WINDOW == 1 * TicksPerSec
BACKOFF_START == 60   \* wait_time = 60 in handle_rate_limit_error
BACKOFF_ROUNDS == 3   \* range(3) in handle_rate_limit_error

Budget == MAX_RUNTIME_SECS * TicksPerSec
\* time a blocking network call may take: none to speak of, or long enough to
\* use up the whole budget (requests' timeout bounds one socket wait, not the call)
Delays == {0, Budget + 1}
\* time.sleep and the clock reads around it may take a tick longer than asked
\* (explored for the limiter alone; in a run they take no extra tick)
Overs == {0, 1}
\* what one gap between two calls of rate_limit_wait may be
Gaps == 0..RATE_LIMIT_WINDOW

VARIABLES
    pc,             \* where the process is: idle, loop, await, limiter, or how it ended
    runs,           \* process runs started so far
    index,          \* lbc repository: the ID each docs/*.txt file holds, in tree order
    throttle,       \* 429 answers the upstream still has in store
    stateFile,      \* cache_state.txt
    now,            \* time.time() of the running process
    request_times,  \* global request_times
    start_time,     \* main: start_time
    state,          \* main: state
    last_id,        \* main: last_id
    cached_count,   \* main: cached_count
    all_ids,        \* main: all_ids
    remaining_ids,  \* main: remaining_ids
    idx,            \* main: number of loop iterations finished (enumerate's idx)
    retries,        \* fetch_tmdb_data: requests repeated for the current ID after a 429
    waited,         \* fetch_tmdb_data: ticks of backoff sleep spent on the current ID
    lastWait,       \* fetch_tmdb_data: ticks of the last backoff sleep for the current ID
    calls,          \* calls of rate_limit_wait in this process
    issued,         \* the last RATE_LIMIT+1 timestamps rate_limit_wait recorded
    fetched,        \* IDs main handed to fetch_tmdb_data in this run, in order
    stored,         \* IDs whose docs/XX/<id>.json file this run wrote
    failed,         \* IDs whose lookup this run ended with a 404 or an error
    cache_write,    \* outcome of the last cache_file.write_text of this run
    attempted,      \* IDs handed to fetch_tmdb_data in any run so far
    fileAtStart,    \* cache_state.txt as it was when this run started
    prev,           \* how the run before this one went
    listed,         \* fetch_lbc_mapping_ids: what the listing of this run met
    docs,           \* docs/: how often this process wrote the file at each path
    sent            \* requests this process sent to the TMDB API

vars == <<pc, runs, index, throttle, stateFile, now, request_times, start_time,
          state, last_id, cached_count, all_ids, remaining_ids, idx, retries, waited,
          lastWait, calls, issued, fetched, stored, failed, cache_write, attempted,
          fileAtStart, prev, listed, docs, sent>>

InRun == {"loop", "await"}
Ended == {"nokey", "allcached", "timeout", "drained", "error"}

\* ------------------------------------------------------------ dictionaries
Get(d, k, default) == IF k \in DOMAIN d THEN d[k] ELSE default
SetKey(d, k, v) == [x \in DOMAIN d \cup {k} |-> IF x = k THEN v ELSE d[x]]

Range(s) == {s[i] : i \in 1..Len(s)}
Min(S) == CHOOSE x \in S : \A y \in S : x <= y
RECURSIVE Sorted(_)
Sorted(S) == IF S = {} THEN <<>> ELSE <<Min(S)>> \o Sorted(S \ {Min(S)})
Last(s) == s[Len(s)]
Tail1(s, n) == IF Len(s) > n THEN SubSeq(s, Len(s) - n + 1, Len(s)) ELSE s

\* --------------------------------------------------------------- load/save
NoFile == [kind |-> "absent"]
DefaultState(t) == [last_id |-> 0, cached_count |-> 0, start_time |-> t]
\* cache_state.txt is absent, or holds text json.loads rejects ("garbage"), or
\* JSON that is no object ("json": a number, a string, a list, null), or an
\* object ("dict", with its keys and values)
\* load_state(): json.loads raises a ValueError for garbage, which is caught;
\* for JSON that is no object data.get raises an AttributeError, which is not
load_state_raises(file) == file.kind = "json"
load_state(file, t) == IF file.kind = "dict" THEN file.data ELSE DefaultState(t)
save_state(st) == [kind |-> "dict", data |-> st]

\* ------------------------------------------------------------ rate limiter
\* the limiter with the test `len(request_times) > RATE_LIMIT`
rate_limit_wait_late(rt, cur, over) ==
    LET kept == SelectSeq(rt, LAMBDA t : cur - t < RATE_LIMIT_WINDOW)
        sleep_time == IF Len(kept) > RATE_LIMIT
                      THEN RATE_LIMIT_WINDOW - (cur - kept[1]) ELSE 0
        stamp == cur + (IF sleep_time > 0 THEN sleep_time ELSE 0) + over
    IN  [request_times |-> Append(kept, stamp), now |-> stamp]

\* rate_limit_wait() called at time cur with history rt; over is the extra time
\* that passes before the timestamp is taken
rate_limit_wait(rt, cur, over) ==
    LET kept == SelectSeq(rt, LAMBDA t : cur - t < RATE_LIMIT_WINDOW)
        sleep_time == IF Len(kept) >= RATE_LIMIT
                      THEN RATE_LIMIT_WINDOW - (cur - kept[1]) ELSE 0
        stamp == cur + (IF sleep_time > 0 THEN sleep_time ELSE 0) + over
    IN  [request_times |-> Append(kept, stamp), now |-> stamp]

\* -------------------------------------------------------------- backoff
\* handle_rate_limit_error(): the first pass of the loop sleeps wait_time and
\* returns True; the doubled wait_time and the return False are never reached
handle_rate_limit_error == [slept |-> BACKOFF_START * TicksPerSec, retry |-> TRUE]

\* ------------------------------------------------------------- the index
TokenOutcomes == {"ok", "skip", "raise"}
\* fetch_lbc_mapping_ids() returning tmdb_ids as collected, without sorted(set())
fetch_lbc_mapping_ids_as_listed(ix, tree_ok, tok) ==
    IF ~tree_ok \/ \E i \in 1..Len(ix) : tok[i] = "raise"
    THEN <<>>
    ELSE SelectSeq(ix, LAMBDA id : \E i \in 1..Len(ix) : ix[i] = id /\ tok[i] = "ok")

\* fetch_lbc_mapping_ids() going on to the file lookups after a tree listing
\* that failed
fetch_lbc_mapping_ids_anyway(ix, tree_ok, tok) ==
    IF \E i \in 1..Len(ix) : tok[i] = "raise"
    THEN <<>>
    ELSE Sorted({ix[i] : i \in {j \in 1..Len(ix) : tok[j] = "ok"}})

\* fetch_lbc_mapping_ids(): tree_ok is whether the tree listing answered; tok[i]
\* is how the lookup of file i went: ok (200 and an integer), skip (another
\* status or no integer), raise (a RequestException, caught by the outer try)
fetch_lbc_mapping_ids(ix, tree_ok, tok) ==
    IF ~tree_ok \/ \E i \in 1..Len(ix) : tok[i] = "raise"
    THEN <<>>
    ELSE Sorted({ix[i] : i \in {j \in 1..Len(ix) : tok[j] = "ok"}})

\* what the listing met, for the record
listing(ix, tree_ok, tok) ==
    [tree |-> IF tree_ok THEN "ok" ELSE "failed",
     ok |-> IF tree_ok THEN {ix[i] : i \in {j \in 1..Len(ix) : tok[j] = "ok"}} ELSE {},
     raised |-> tree_ok /\ \E i \in 1..Len(ix) : tok[i] = "raise"]

\* remaining_ids = [id for id in all_ids if id > last_id]
remaining(ids, last) == SelectSeq(ids, LAMBDA id : id > last)

\* ------------------------------------------------------------- checkpoints
\* the state main saves when the budget check fires before movie_id
timeout_state(st, movie_id, count) ==
    SetKey(SetKey(st, "last_id", movie_id), "cached_count", st["cached_count"] + count)
\* the state main saves after the loop
drained_state(st) == SetKey(SetKey(st, "last_id", 0), "cached_count", 0)

\* --------------------------------------------------------------- the cache
\* str(n) for n >= 0, as the sequence of its digits
RECURSIVE Decimal(_)
Decimal(n) == IF n < 10 THEN <<n>> ELSE Append(Decimal(n \div 10), n % 10)
\* s[:k]
Prefix(s, k) == SubSeq(s, 1, IF Len(s) < k THEN Len(s) ELSE k)
\* s.zfill(width) for a string of digits
RECURSIVE zfill(_, _)
zfill(s, width) == IF Len(s) >= width THEN s ELSE zfill(<<0>> \o s, width)

\* the path without the zfill
cache_path_unpadded(id) ==
    LET movie_id == Decimal(id)
    IN  [dir |-> Prefix(movie_id, 2), name |-> movie_id]

\* lines 110-115: docs/<dir_prefix>/<movie_id>.json
cache_path(id) ==
    LET movie_id == Decimal(id)
    IN  [dir |-> zfill(Prefix(movie_id, 2), 2), name |-> movie_id]

\* line 116: cache_file.write_text creates the file or replaces what it held
NoDocs == [p \in {} |-> 0]
write_text(dir, path) ==
    [p \in DOMAIN dir \cup {path} |->
        IF p # path THEN dir[p] ELSE IF path \in DOMAIN dir THEN dir[path] + 1 ELSE 1]

\* save_movie_cache() with the write wrapped in a try/except that passes
save_movie_cache_swallows(files, id, write_ok) ==
    [files |-> IF write_ok THEN files \cup {id} ELSE files, raised |-> FALSE]

\* save_movie_cache(): the files after the call and whether it raised
save_movie_cache(files, id, write_ok) ==
    IF write_ok THEN [files |-> files \cup {id}, raised |-> FALSE]
    ELSE [files |-> files, raised |-> TRUE]

\* what a run started now would load as its cursor
PersistedLastId == Get(load_state(stateFile, 0), "last_id", 0)

\* the part of a work list that is left after its first k items
Rest(ids, k) == SubSeq(ids, k + 1, Len(ids))

\* a network call takes d ticks; once the budget is used up the model lets no
\* further long call happen (nothing but the budget check reads so late a clock)
Elapse(d) == d = 0 \/ now - start_time <= Budget

\* prev: how the run ended; for a run that ended by timeout, by draining or by
\* being killed the listing it had; the work a timeout left undone; the files a
\* killed run had written
Resumed == {"timeout", "drained", "killed"}
NoPrev == [outcome |-> "none", all_ids |-> <<>>, todo |-> <<>>, stored |-> {}]
\* listed: whether the tree listing answered, the IDs of the files whose lookup
\* gives a 200 and an integer, and whether a lookup raised
NoListing == [tree |-> "none", ok |-> {}, raised |-> FALSE]

\* nothing has run and no process is running
InitProcess ==
    /\ runs = 0
    /\ now = 0 /\ request_times = <<>> /\ start_time = 0
    /\ state = DefaultState(0) /\ last_id = 0 /\ cached_count = 0
    /\ all_ids = <<>> /\ remaining_ids = <<>> /\ idx = 0
    /\ retries = 0 /\ waited = 0 /\ lastWait = 0 /\ calls = 0
    /\ issued = <<>> /\ fetched = <<>> /\ stored = {} /\ failed = {}
    /\ cache_write = "none" /\ attempted = {} /\ fileAtStart = NoFile
    /\ prev = NoPrev
    /\ listed = NoListing /\ docs = NoDocs /\ sent = 0

InitCommon ==
    /\ InitProcess
    /\ stateFile = NoFile

\* nothing has run yet: no state file and an empty lbc repository
Init ==
    /\ InitCommon
    /\ pc = "idle"
    /\ index = <<>>
    /\ throttle \in 0..1

\* the lbc repository gains a file between two runs
IndexGrows(id) ==
    /\ pc = "idle"
    /\ Len(index) < MaxTokens
    /\ index' = Append(index, id)
    /\ UNCHANGED <<pc, runs, throttle, stateFile, now, request_times, start_time,
                   state, last_id, cached_count, all_ids, remaining_ids, idx, retries,
                   waited, lastWait, calls, issued, fetched, stored, failed,
                   cache_write, attempted, fileAtStart, prev, listed, docs, sent>>

\* main() loading the state before it looks for the API key
StartRun_loads_first(has_key, tree_ok, tok, d) ==
    /\ pc = "idle"
    /\ runs < MaxRuns
    /\ ~has_key => tree_ok /\ d = 0
    /\ ~(has_key /\ tree_ok /\ ~load_state_raises(stateFile)) =>
            \A i \in DOMAIN tok : tok[i] = "ok"
    /\ has_key /\ load_state_raises(stateFile) => tree_ok /\ d = 0
    /\ runs' = runs + 1
    /\ fileAtStart' = stateFile
    /\ IF ~has_key
       THEN /\ pc' = "nokey"
            /\ state' = load_state(stateFile, now)
            /\ last_id' = Get(load_state(stateFile, now), "last_id", 0)
            /\ cached_count' = Get(load_state(stateFile, now), "cached_count", 0)
            /\ UNCHANGED <<now, all_ids, remaining_ids, listed>>
       ELSE IF load_state_raises(stateFile)
       THEN /\ pc' = "error"
            /\ UNCHANGED <<now, state, last_id, cached_count, all_ids, remaining_ids,
                           listed>>
       ELSE LET st == load_state(stateFile, now)
                last == Get(st, "last_id", 0)
                ids == fetch_lbc_mapping_ids(index, tree_ok, tok)
                rem == remaining(ids, last)
            IN  /\ now' = now + d
                /\ state' = st
                /\ last_id' = last
                /\ cached_count' = Get(st, "cached_count", 0)
                /\ all_ids' = ids
                /\ remaining_ids' = rem
                /\ listed' = listing(index, tree_ok, tok)
                /\ pc' = IF rem = <<>> THEN "allcached" ELSE "loop"
    /\ UNCHANGED <<index, throttle, stateFile, request_times, start_time, idx,
                   retries, waited, lastWait, calls, issued, fetched, stored, failed,
                   cache_write, attempted, prev, docs, sent>>

\* main() up to the loop, lines 153-174; the inputs a run without the API key
\* or without the tree listing never reads are fixed
StartRun(has_key, tree_ok, tok, d) ==
    /\ pc = "idle"
    /\ runs < MaxRuns
    /\ ~has_key => tree_ok /\ d = 0
    /\ ~(has_key /\ tree_ok /\ ~load_state_raises(stateFile)) =>
            \A i \in DOMAIN tok : tok[i] = "ok"
    /\ has_key /\ load_state_raises(stateFile) => tree_ok /\ d = 0
    /\ runs' = runs + 1
    /\ fileAtStart' = stateFile
    /\ IF ~has_key
       THEN /\ pc' = "nokey"
            /\ UNCHANGED <<now, state, last_id, cached_count, all_ids, remaining_ids,
                           listed>>
       ELSE IF load_state_raises(stateFile)
       THEN /\ pc' = "error"
            /\ UNCHANGED <<now, state, last_id, cached_count, all_ids, remaining_ids,
                           listed>>
       ELSE LET st == load_state(stateFile, now)
                last == Get(st, "last_id", 0)
                ids == fetch_lbc_mapping_ids(index, tree_ok, tok)
                rem == remaining(ids, last)
            IN  /\ now' = now + d
                /\ state' = st
                /\ last_id' = last
                /\ cached_count' = Get(st, "cached_count", 0)
                /\ all_ids' = ids
                /\ remaining_ids' = rem
                /\ listed' = listing(index, tree_ok, tok)
                /\ pc' = IF rem = <<>> THEN "allcached" ELSE "loop"
    /\ UNCHANGED <<index, throttle, stateFile, request_times, start_time, idx,
                   retries, waited, lastWait, calls, issued, fetched, stored, failed,
                   cache_write, attempted, prev, docs, sent>>

\* lines 177-182: the budget check fires before remaining_ids[idx]
Timeout ==
    /\ pc = "loop" /\ idx < Len(remaining_ids)
    /\ now - start_time > Budget
    /\ IF "cached_count" \in DOMAIN state
       THEN LET st == timeout_state(state, remaining_ids[idx + 1], cached_count)
            IN  /\ state' = st
                /\ stateFile' = save_state(st)
                /\ pc' = "timeout"
       ELSE \* line 180 reads state["cached_count"]: a KeyError, nothing is saved
            /\ state' = SetKey(state, "last_id", remaining_ids[idx + 1])
            /\ stateFile' = stateFile
            /\ pc' = "error"
    /\ UNCHANGED <<runs, index, throttle, now, request_times, start_time,
                   last_id, cached_count, all_ids, remaining_ids, idx, retries, waited,
                   lastWait, calls, issued, fetched, stored, failed, cache_write,
                   attempted, fileAtStart, prev, listed, docs, sent>>

\* line 184 and 66-72: main calls fetch_tmdb_data, which waits for the limiter
\* and sends the request
BeginFetch ==
    /\ pc = "loop" /\ idx < Len(remaining_ids)
    /\ ~(now - start_time > Budget)
    /\ LET movie_id == remaining_ids[idx + 1]
           rl == rate_limit_wait(request_times, now, 0)
       IN  /\ request_times' = rl.request_times
           /\ now' = rl.now
           /\ issued' = Tail1(Append(issued, rl.now), RATE_LIMIT + 1)
           /\ fetched' = Append(fetched, movie_id)
           /\ attempted' = attempted \cup {movie_id}
    /\ calls' = calls + 1
    /\ sent' = sent + 1
    /\ retries' = 0 /\ waited' = 0 /\ lastWait' = 0
    /\ pc' = "await"
    /\ UNCHANGED <<runs, index, throttle, stateFile, start_time, state, last_id,
                   cached_count, all_ids, remaining_ids, idx, stored, failed,
                   cache_write, fileAtStart, prev, listed, docs>>

\* the retry after a 429 sending the request again without rate_limit_wait()
Respond429_unthrottled(d) ==
    /\ pc = "await"
    /\ Elapse(d)
    /\ throttle > 0
    /\ throttle' = throttle - 1
    /\ LET h == handle_rate_limit_error
       IN  /\ h.retry
           /\ lastWait' = h.slept
           /\ waited' = waited + h.slept
           /\ retries' = retries + 1
           /\ now' = now + d + h.slept
    /\ sent' = sent + 1
    /\ UNCHANGED <<pc, runs, index, stateFile, request_times, start_time, state,
                   last_id, cached_count, all_ids, remaining_ids, idx, calls, issued,
                   fetched, stored, failed, cache_write, attempted, fileAtStart, prev,
                   listed, docs>>

\* lines 74-77: a 429; handle_rate_limit_error sleeps and, as it returned True,
\* fetch_tmdb_data calls itself: the limiter again, then the request again
Respond429(d) ==
    /\ pc = "await"
    /\ Elapse(d)
    /\ throttle > 0
    /\ throttle' = throttle - 1
    /\ LET h == handle_rate_limit_error
           rl == rate_limit_wait(request_times, now + d + h.slept, 0)
       IN  /\ h.retry
           /\ lastWait' = h.slept
           /\ waited' = waited + h.slept
           /\ retries' = retries + 1
           /\ request_times' = rl.request_times
           /\ now' = rl.now
           /\ issued' = Tail1(Append(issued, rl.now), RATE_LIMIT + 1)
    /\ calls' = calls + 1
    /\ sent' = sent + 1
    /\ UNCHANGED <<pc, runs, index, stateFile, start_time, state, last_id,
                   cached_count, all_ids, remaining_ids, idx, fetched, stored, failed,
                   cache_write, attempted, fileAtStart, prev, listed, docs>>

\* fetch_tmdb_data without its except clause: the error leaves main
ReturnAbsent_raises(d) ==
    /\ pc = "await"
    /\ Elapse(d)
    /\ now' = now + d
    /\ failed' = failed \cup {remaining_ids[idx + 1]}
    /\ pc' = "error"
    /\ UNCHANGED <<runs, index, throttle, stateFile, request_times, start_time, state,
                   last_id, cached_count, all_ids, remaining_ids, idx, retries, waited,
                   lastWait, calls, issued, fetched, stored, cache_write, attempted,
                   fileAtStart, prev, listed, docs, sent>>

\* fetch_tmdb_data returns None and main goes on with the next ID, lines 194-195
ReturnAbsent(d) ==
    /\ pc = "await"
    /\ Elapse(d)
    /\ now' = now + d
    /\ failed' = failed \cup {remaining_ids[idx + 1]}
    /\ idx' = idx + 1
    /\ retries' = 0 /\ waited' = 0 /\ lastWait' = 0
    /\ pc' = "loop"
    /\ UNCHANGED <<runs, index, throttle, stateFile, request_times, start_time,
                   state, last_id, cached_count, all_ids, remaining_ids, calls, issued,
                   fetched, stored, cache_write, attempted, fileAtStart, prev, listed, docs, sent>>

\* lines 80-81: a 404
Respond404(d) == ReturnAbsent(d)

\* lines 83 and 86-88: another error status (raise_for_status) or a transport
\* error, both a RequestException
RespondError(d) == ReturnAbsent(d)

\* lines 83-84 and 185-187: a 200 with the movie's document, which main hands to
\* save_movie_cache; write_ok is whether the file could be written
Respond200(write_ok, d) ==
    /\ pc = "await"
    /\ Elapse(d)
    /\ now' = now + d
    /\ retries' = 0 /\ waited' = 0 /\ lastWait' = 0
    /\ LET movie_id == remaining_ids[idx + 1]
           w == save_movie_cache(stored, movie_id, write_ok)
       IN  /\ stored' = w.files
           /\ docs' = IF write_ok THEN write_text(docs, cache_path(movie_id)) ELSE docs
           /\ cache_write' = IF write_ok THEN "ok" ELSE "failed"
           /\ IF w.raised
              THEN /\ pc' = "error"
                   /\ UNCHANGED <<idx, cached_count>>
              ELSE /\ pc' = "loop"
                   /\ idx' = idx + 1
                   /\ cached_count' = cached_count + 1
    /\ UNCHANGED <<runs, index, throttle, stateFile, request_times, start_time, state,
                   last_id, all_ids, remaining_ids, calls, issued, fetched, failed,
                   attempted, fileAtStart, prev, listed, sent>>

\* the end of main saving the cursor where the loop stopped instead of 0
Finish_keeps_cursor ==
    /\ pc = "loop" /\ idx = Len(remaining_ids)
    /\ LET st == SetKey(SetKey(state, "last_id", Last(remaining_ids)), "cached_count", 0)
       IN  /\ state' = st
           /\ stateFile' = save_state(st)
    /\ pc' = "drained"
    /\ UNCHANGED <<runs, index, throttle, now, request_times, start_time,
                   last_id, cached_count, all_ids, remaining_ids, idx, retries, waited,
                   lastWait, calls, issued, fetched, stored, failed, cache_write,
                   attempted, fileAtStart, prev, listed, docs, sent>>

\* lines 197-200: the loop is over
Finish ==
    /\ pc = "loop" /\ idx = Len(remaining_ids)
    /\ LET st == drained_state(state)
       IN  /\ state' = st
           /\ stateFile' = save_state(st)
    /\ pc' = "drained"
    /\ UNCHANGED <<runs, index, throttle, now, request_times, start_time,
                   last_id, cached_count, all_ids, remaining_ids, idx, retries, waited,
                   lastWait, calls, issued, fetched, stored, failed, cache_write,
                   attempted, fileAtStart, prev, listed, docs, sent>>

\* the process is gone and with it all it held in memory; what stays is the
\* state file, the cache files and, for the record, how the run went
Gone(outcome) ==
    /\ pc' = "idle"
    /\ prev' = [outcome |-> outcome,
                all_ids |-> IF outcome \in Resumed THEN all_ids ELSE <<>>,
                todo |-> IF outcome = "timeout" THEN Rest(remaining_ids, idx) ELSE <<>>,
                stored |-> IF outcome = "killed" THEN stored ELSE {}]
    /\ now' = 0 /\ request_times' = <<>> /\ start_time' = 0
    /\ state' = DefaultState(0) /\ last_id' = 0 /\ cached_count' = 0
    /\ all_ids' = <<>> /\ remaining_ids' = <<>> /\ idx' = 0
    /\ retries' = 0 /\ waited' = 0 /\ lastWait' = 0 /\ calls' = 0
    /\ issued' = <<>> /\ fetched' = <<>> /\ stored' = {} /\ failed' = {}
    /\ cache_write' = "none" /\ fileAtStart' = NoFile
    /\ listed' = NoListing /\ docs' = NoDocs /\ sent' = 0
    /\ UNCHANGED <<runs, index, throttle, stateFile, attempted>>

\* main has returned or raised
Exit == pc \in Ended /\ Gone(pc)

\* the platform kills the process in the middle of a run
Kill == pc \in InRun /\ Gone("killed")

RunStep ==
    \/ Timeout
    \/ BeginFetch
    \/ \E d \in Delays : Respond429(d)
    \/ \E d \in Delays : Respond404(d)
    \/ \E d \in Delays : RespondError(d)
    \/ \E write_ok \in BOOLEAN, d \in Delays : Respond200(write_ok, d)
    \/ Finish

Start ==
    \E has_key \in BOOLEAN, tree_ok \in BOOLEAN, d \in Delays :
      \E tok \in [1..Len(index) -> TokenOutcomes] : StartRun(has_key, tree_ok, tok, d)

Next ==
    \/ \E id \in 1..MaxId : IndexGrows(id)
    \/ Start
    \/ RunStep
    \/ Kill
    \/ Exit

\* runs of the script one after another, the lbc repository growing in between;
\* the upstream answers 429 at most once
Spec == Init /\ [][Next]_vars

\* ------------------------------------------------- one run, throttled upstream
Indexes == UNION {[1..n -> 1..MaxId] : n \in 0..MaxTokens}

InitFetch ==
    /\ InitCommon
    /\ pc = "idle"
    /\ index \in Indexes
    /\ throttle = Max429

NextFetch ==
    \/ runs = 0 /\ Start
    \/ RunStep

\* a single run over any lbc repository, the upstream answering 429 up to
\* Max429 times
SpecFetch == InitFetch /\ [][NextFetch]_vars

\* ----------------------------------------- one run, any cache_state.txt
\* cached_count values a state file may hold
PriorCounts == 0..1
\* objects with all three keys, and objects that lack one or two of them
FullRecords ==
    {[last_id |-> k, cached_count |-> c, start_time |-> 0] :
        k \in 0..MaxId, c \in PriorCounts}
PartialRecords ==
    {[last_id |-> k, start_time |-> 0] : k \in 0..MaxId}
        \cup {[cached_count |-> c] : c \in PriorCounts}
        \cup {[start_time |-> 0]}
\* what a run may find as cache_state.txt
FileContents ==
    {NoFile, [kind |-> "garbage"], [kind |-> "json"]}
        \cup {[kind |-> "dict", data |-> r] : r \in FullRecords \cup PartialRecords}

InitCkpt ==
    /\ InitProcess
    /\ stateFile \in FileContents
    /\ pc = "idle"
    /\ index \in Indexes
    /\ throttle \in 0..1

NextCkpt ==
    \/ runs = 0 /\ Start
    \/ RunStep

\* a single run that finds anything as its state file, over any lbc repository
SpecCkpt == InitCkpt /\ [][NextCkpt]_vars

\* ------------------------------------------------------ the cache alone
\* the IDs of the documents handed to save_movie_cache
CacheIds == {1, 7, 9, 10, 12, 99, 100, 1234}

InitCache ==
    /\ InitCommon
    /\ pc = "cache"
    /\ index = <<>>
    /\ throttle = 0

\* one call of save_movie_cache() with the document of movie id
CacheWrite(id) ==
    /\ pc = "cache"
    /\ cache_path(id) \in DOMAIN docs => docs[cache_path(id)] < MaxWrites
    /\ LET w == save_movie_cache(stored, id, TRUE)
       IN  /\ stored' = w.files
           /\ ~w.raised
    /\ docs' = write_text(docs, cache_path(id))
    /\ cache_write' = "ok"
    /\ UNCHANGED <<pc, runs, index, throttle, stateFile, now, request_times, start_time,
                   state, last_id, cached_count, all_ids, remaining_ids, idx, retries,
                   waited, lastWait, calls, issued, fetched, failed, attempted,
                   fileAtStart, prev, listed, sent>>

NextCache == \E id \in CacheIds : CacheWrite(id)

\* any sequence of calls of save_movie_cache() in one process
SpecCache == InitCache /\ [][NextCache]_vars

\* ------------------------------------------------------- the limiter alone
InitRL ==
    /\ InitCommon
    /\ pc = "limiter"
    /\ index = <<>>
    /\ throttle = 0

\* one call of rate_limit_wait(), gap ticks after the one before
LimiterCall(gap, over) ==
    /\ pc = "limiter"
    /\ calls < MaxCalls
    /\ calls' = calls + 1
    /\ LET rl == rate_limit_wait(request_times, now + gap, over)
       IN  /\ request_times' = rl.request_times
           /\ now' = rl.now
           /\ issued' = Tail1(Append(issued, rl.now), RATE_LIMIT + 1)
    /\ UNCHANGED <<pc, runs, index, throttle, stateFile, start_time, state, last_id,
                   cached_count, all_ids, remaining_ids, idx, retries, waited, lastWait,
                   fetched, stored, failed, cache_write, attempted, fileAtStart, prev, listed, docs, sent>>

NextRL == \E gap \in Gaps, over \in Overs : LimiterCall(gap, over)

\* any sequence of calls of rate_limit_wait() in one process
SpecRL == InitRL /\ [][NextRL]_vars

\* ================================================================ claims
\* a run that has the API key and has read the state file and the listing
RunPcs == {"loop", "await", "allcached", "timeout", "drained", "error"}
\* this run follows one that ended as `outcome` and has the listing that one had
Follows(outcome) ==
    /\ pc \in RunPcs
    /\ prev.outcome = outcome
    /\ all_ids = prev.all_ids

\* C1: of any RATE_LIMIT+1 consecutive calls of rate_limit_wait() the last is
\* stamped at least RATE_LIMIT_WINDOW after the first, so no window of that
\* length holds more than RATE_LIMIT stamps.  (issued is the last RATE_LIMIT+1
\* stamps in every state, so this covers every i.)
C1_RateLimitBound ==
    Len(issued) = RATE_LIMIT + 1 =>
        issued[RATE_LIMIT + 1] - issued[1] >= RATE_LIMIT_WINDOW

\* RATE_LIMIT calls in one tick, and the next one made to wait out the window
C1_Witness ==
    /\ Len(issued) = RATE_LIMIT + 1
    /\ issued[RATE_LIMIT] = issued[1]
    /\ issued[RATE_LIMIT + 1] = issued[1] + RATE_LIMIT_WINDOW
    /\ calls > RATE_LIMIT + 1

\* 60 * 2^(n-1) seconds, the wait the schedule gives the n-th 429 in a row
RECURSIVE ScheduledWait(_)
ScheduledWait(n) == IF n <= 1 THEN BACKOFF_START ELSE 2 * ScheduledWait(n - 1)

\* C2: for one ID the n-th 429 in a row is followed by a wait of 60, 120, 240
\* seconds; there are never more than 3 retries nor more than 420 seconds of
\* backoff.
C2_BackoffSchedule ==
    /\ retries <= BACKOFF_ROUNDS
    /\ waited <= (60 + 120 + 240) * TicksPerSec
    /\ retries >= 1 => lastWait = ScheduledWait(retries) * TicksPerSec

\* C3: a run that follows a run the budget check stopped, with the same
\* listing, has as its work exactly what that run left undone, its item k
\* included, and when it drains it has fetched exactly that.
C3_ResumeAtK ==
    Follows("timeout") =>
        /\ remaining_ids = prev.todo
        /\ pc = "drained" => fetched = prev.todo

\* C4: when the budget check fires before item j, no item from j on has been
\* fetched and the persisted last_id is that of item j-1 (the cursor loaded at
\* start when j is the first item).
C4_TimeoutCheckpoint ==
    pc = "timeout" =>
        /\ fetched = SubSeq(remaining_ids, 1, idx)
        /\ PersistedLastId = IF idx = 0 THEN last_id ELSE remaining_ids[idx]

\* C5 as stated: a run that follows a run that drained, with the same listing,
\* fetches nothing and ends drained.
C5_SecondRunIdle ==
    Follows("drained") =>
        /\ fetched = <<>>
        /\ pc \in {"loop", "allcached", "drained"}

\* C5 as amended: a run that follows a run that drained, with the same listing,
\* starts over: its work is the whole listing, which is not empty, and when it
\* drains it has fetched all of it and persists last_id = 0 again.
C5_SecondRunStartsOver ==
    Follows("drained") =>
        /\ remaining_ids = all_ids
        /\ remaining_ids # <<>>
        /\ pc = "drained" => fetched = all_ids /\ PersistedLastId = 0

\* a second full pass over two IDs
C5_Witness ==
    /\ Follows("drained")
    /\ pc = "drained"
    /\ Len(fetched) >= 2

\* C6: every ID of the lbc repository that a run started from the persisted
\* last_id would filter out has been handed to fetch_tmdb_data before.
C6_NoSkippedWork ==
    \A i \in 1..Len(index) : index[i] <= PersistedLastId => index[i] \in attempted

\* C7: a run that follows a killed run, with the same listing, fetches none of
\* the IDs the killed run had fetched and cached.
C7_KilledNoRefetch ==
    Follows("killed") => Range(fetched) \cap prev.stored = {}

\* C8 as stated: an ID whose lookup failed has no cache file written, the loop
\* has gone past it, the run was not aborted by it, and a checkpoint this run
\* persists is past it.
C8_FailedIdPassed ==
    \A f \in failed :
        /\ f \notin stored
        /\ \E i \in 1..idx : remaining_ids[i] = f
        /\ pc = "error" => cache_write = "failed"
        /\ pc \in {"timeout", "drained"} => PersistedLastId >= f

\* C8 as amended: as stated, but only the checkpoint persisted on timeout is
\* past the failed ID; the one persisted after the loop is the reset last_id = 0.
C8_FailedIdSkipped ==
    \A f \in failed :
        /\ f \notin stored
        /\ \E i \in 1..idx : remaining_ids[i] = f
        /\ pc = "error" => cache_write = "failed"
        /\ pc = "timeout" => PersistedLastId > f
        /\ pc = "drained" => PersistedLastId = 0

\* a lookup failed, the run went on and the budget check then stopped it
C8_Witness ==
    /\ pc = "timeout"
    /\ \E f \in failed : PersistedLastId > f

\* C9: when the cache file cannot be written the run is in the error state, the
\* failing ID is the last one fetched, and the state file is as the run found
\* it; from the error state the process only exits, leaving the file alone.
C9_WriteFailureStops ==
    /\ [](cache_write = "failed" =>
            /\ pc = "error"
            /\ Len(fetched) = idx + 1
            /\ stateFile = fileAtStart)
    /\ [][pc = "error" => pc' = "idle" /\ stateFile' = stateFile]_vars

\* the write fails in a run that found a checkpoint and had cached an ID already
C9_Witness ==
    /\ pc = "error" /\ cache_write = "failed"
    /\ fileAtStart # NoFile
    /\ stored # {}

\* C10: a run that finds no ID greater than last_id leaves last_id = 0 persisted.
C10_EmptyWorkResets ==
    pc = "allcached" => PersistedLastId = 0

\* a state file the run could not use as a checkpoint
Unusable == {"absent", "garbage", "json"}

\* C11: whatever the state file holds, the run does not end in an error the
\* state file caused (the one error left is a cache file that cannot be
\* written), and with an absent or corrupt state file the run has last_id = 0
\* and the whole listing as its work.
C11_CheckpointNeverFatal ==
    /\ pc = "error" => cache_write = "failed"
    /\ pc \in RunPcs /\ fileAtStart.kind \in Unusable =>
            /\ last_id = 0
            /\ pc # "error" => remaining_ids = all_ids

\* C12: when the tree listing answered, the listing the run gets is the IDs of
\* all the files whose lookup resolves, whatever happened to the lookups of the
\* other files (another status, no integer, a transport error).
C12_FailingTokenSkipped ==
    pc \in RunPcs /\ listed.tree = "ok" => all_ids = Sorted(listed.ok)

\* C13: a run whose tree listing failed has not crashed, has sent no request
\* to the TMDB API, has written no cache file and has left the state file as
\* it found it; all it does from there is exit, the state file still untouched.
C13_ListingFailureIdle ==
    /\ [](pc \in RunPcs /\ listed.tree = "failed" =>
            /\ pc = "allcached"
            /\ fetched = <<>> /\ sent = 0 /\ calls = 0
            /\ stored = {} /\ docs = NoDocs /\ cache_write = "none"
            /\ stateFile = fileAtStart)
    /\ [][listed.tree = "failed" => pc' = "idle" /\ stateFile' = stateFile]_vars

\* the listing fails in a run that found a checkpoint and a repository with files
C13_Witness ==
    /\ pc = "allcached" /\ listed.tree = "failed"
    /\ fileAtStart # NoFile
    /\ index # <<>>

\* C14: a run without the API key has loaded no state, looked nothing up in
\* the lbc repository, sent no request, written no cache file and left the
\* state file as it found it; all it does from there is exit, the state file
\* still untouched.
C14_NoKeyNoRun ==
    /\ [](pc = "nokey" =>
            /\ state = DefaultState(0) /\ last_id = 0 /\ cached_count = 0
            /\ listed = NoListing /\ all_ids = <<>>
            /\ fetched = <<>> /\ sent = 0 /\ calls = 0
            /\ stored = {} /\ docs = NoDocs /\ cache_write = "none"
            /\ stateFile = fileAtStart)
    /\ [][pc = "nokey" => pc' = "idle" /\ stateFile' = stateFile]_vars

\* the key is missing in a run that would have found a cursor to resume from
\* and a repository with files
C14_Witness ==
    /\ pc = "nokey"
    /\ PersistedLastId > 0
    /\ index # <<>>

\* the two leading digits of n >= 10, and the number a string of digits spells
RECURSIVE LeadingTwo(_)
LeadingTwo(n) == IF n < 100 THEN <<n \div 10, n % 10>> ELSE LeadingTwo(n \div 10)
RECURSIVE Spells(_)
Spells(ds) == IF ds = <<>> THEN 0 ELSE 10 * Spells(SubSeq(ds, 1, Len(ds) - 1)) + Last(ds)

\* C15: the files written are, one for each ID saved, at <shard>/<id>.json,
\* the shard being the ID's two leading digits, or 0 and the ID for an ID of
\* one digit; 7 is at 07/7.json and 1234 at 12/1234.json; an ID saved again
\* goes to the path it went to before, so there is one file for each ID.
C15_ShardPath ==
    /\ \A id \in stored : \E p \in DOMAIN docs :
            /\ Spells(p.name) = id
            /\ p.name[1] # 0
            /\ p.dir = IF id < 10 THEN <<0, id>> ELSE LeadingTwo(id)
    /\ Cardinality(DOMAIN docs) = Cardinality(stored)
    /\ 7 \in stored => [dir |-> <<0, 7>>, name |-> <<7>>] \in DOMAIN docs
    /\ 1234 \in stored => [dir |-> <<1, 2>>, name |-> <<1, 2, 3, 4>>] \in DOMAIN docs

\* 7 and 1234 both saved, 7 twice
C15_Witness ==
    /\ {7, 1234} \subseteq stored
    /\ docs[cache_path(7)] = 2

\* C16: a lookup that has been answered 429 as often as the backoff has
\* rounds gives up at the next answer, whatever that answer is: fetch_tmdb_data
\* returns and main goes on, so no lookup is retried without end.
C16_FetchGivesUp ==
    [][pc = "await" /\ retries >= BACKOFF_ROUNDS => pc' # "await"]_vars

\* C17: the IDs a run has handed to fetch_tmdb_data so far are strictly
\* ascending (so none is there twice), all greater than the last_id the run
\* loaded, and the first ones of its work list with none left out; a run that
\* got through the loop has fetched every ID of its listing greater than
\* last_id, and when no lookup of the listing raised these are the IDs of the
\* repository's files that resolve, each once however many files hold it.
C17_FetchedAscendingOnce ==
    pc \in RunPcs =>
        /\ \A i, j \in 1..Len(fetched) : i < j => fetched[i] < fetched[j]
        /\ \A i \in 1..Len(fetched) : fetched[i] > last_id
        /\ Len(fetched) \in {idx, idx + 1}
        /\ fetched = SubSeq(remaining_ids, 1, Len(fetched))
        /\ pc = "drained" =>
            /\ Range(fetched) = {id \in Range(all_ids) : id > last_id}
            /\ listed.tree = "ok" /\ ~listed.raised =>
                    Range(fetched) = {id \in listed.ok : id > last_id}

\* a run that resumed from a cursor, over a repository where two files hold the
\* same ID, got through the loop
C17_Witness ==
    /\ pc = "drained"
    /\ last_id > 0
    /\ Len(index) = 2 /\ index[1] = index[2]
    /\ fetched = <<index[1]>>

\* C18: in a run there are as many calls of rate_limit_wait() as requests sent
\* to the TMDB API, retries after a 429 included, and the request awaiting its
\* answer went out at the stamp the limiter took last; so the stamps the
\* limiter keeps apart are the times of the requests: of any RATE_LIMIT+1
\* requests in a row the last is at least RATE_LIMIT_WINDOW after the first.
C18_LimiterBeforeEachRequest ==
    pc \in RunPcs =>
        /\ calls = sent
        /\ sent >= Len(fetched)
        /\ pc = "await" =>
            /\ sent >= Len(fetched) + retries
            /\ Last(request_times) = now /\ Last(issued) = now
        /\ Len(issued) = RATE_LIMIT + 1 =>
            issued[RATE_LIMIT + 1] - issued[1] >= RATE_LIMIT_WINDOW

\* the second ID's request is being retried after a 429, the first ID's was too
C18_Witness ==
    /\ pc = "await"
    /\ retries >= 1
    /\ Len(fetched) = 2
    /\ sent >= RATE_LIMIT + 1

\* C19: the cached_count a run writes when the budget check stops it is the
\* cached_count its state file held before (0 without one) plus the number of
\* cache files this run wrote.
C19_CountAddsUp ==
    pc = "timeout" =>
        stateFile.data["cached_count"] =
            Get(load_state(fileAtStart, 0), "cached_count", 0) + Cardinality(stored)

====
